---- MODULE Spec2Model ----
(***************************************************************************)
(* The account ledger of backend/app.py: registration, login, logout and   *)
(* the deposit / withdraw / list-transactions handlers over the `users`    *)
(* collection.  Amounts are Python floats; they are modelled by a binary   *)
(* floating-point format of reduced width (Precision significand bits,     *)
(* exponents 0..MaxExp) with round-to-nearest-even, overflow to inf, and   *)
(* nan, so that parsing and arithmetic behave as float() and + and - do.   *)
(*                                                                         *)
(* Spec     : one client, one account, every amount input, requests one    *)
(*            at a time.                                                   *)
(* AuthSpec : two clients, two accounts, requests one at a time.           *)
(* HistorySpec : one account while the clock moves over three months.      *)
(* ConcSpec : two worker threads; a handler's read and its write are       *)
(*            separate steps.                                              *)
(***************************************************************************)
EXTENDS Integers, Sequences, FiniteSets, TLC

\* ------------------------------------------------------------------ bounds

\* Significand bits of the modelled float format (binary64 has 53).
Precision == 3

\* Largest exponent of the modelled float format (binary64 has 1023).
MaxExp == 13

\* Transactions stored over all accounts; guards the balance-changing handlers.
MaxTx == 3

\* Documents in the users collection; guards registration.
MaxUsers == 2

\* ------------------------------------------------------------ float values

RECURSIVE Pow2(_)
Pow2(n) == IF n = 0 THEN 1 ELSE 2 * Pow2(n - 1)

Fin(n) == [k |-> "fin", v |-> n]
Inf == [k |-> "inf", v |-> 1]
NegInf == [k |-> "inf", v |-> -1]
NaN == [k |-> "nan", v |-> 0]

MaxFinite == (Pow2(Precision) - 1) * Pow2(MaxExp)

\* The exponent at which the natural number x has at most Precision bits.
RECURSIVE ExpOf(_, _)
ExpOf(x, e) == IF x < Pow2(Precision + e) THEN e ELSE ExpOf(x, e + 1)

\* Round-to-nearest, ties-to-even, of the natural number x; overflow gives inf.
RoundNat(x) ==
    LET e == ExpOf(x, 0)
        u == Pow2(e)
        q == x \div u
        r == x % u
        up == (2 * r > u) \/ (2 * r = u /\ q % 2 = 1)
        m == IF up THEN q + 1 ELSE q
    IN  IF m * u > MaxFinite THEN Inf ELSE Fin(m * u)

FNeg(a) == IF a.k = "nan" THEN NaN ELSE [k |-> a.k, v |-> 0 - a.v]

Round(x) == IF x >= 0 THEN RoundNat(x) ELSE FNeg(RoundNat(0 - x))

\* Python's float + float.
FAdd(a, b) ==
    IF a.k = "nan" \/ b.k = "nan" THEN NaN
    ELSE IF a.k = "inf" /\ b.k = "inf" THEN (IF a.v = b.v THEN a ELSE NaN)
    ELSE IF a.k = "inf" THEN a
    ELSE IF b.k = "inf" THEN b
    ELSE Round(a.v + b.v)

\* Python's float - float.
FSub(a, b) == FAdd(a, FNeg(b))

\* Position of a non-nan value on the extended number line.
Ord(a) == IF a.k = "inf" THEN a.v * (MaxFinite + 1) ELSE a.v

\* Python's <, <= and > on floats: every comparison with nan is False.
FLt(a, b) == a.k # "nan" /\ b.k # "nan" /\ Ord(a) < Ord(b)
FLe(a, b) == a.k # "nan" /\ b.k # "nan" /\ Ord(a) <= Ord(b)
FGt(a, b) == FLt(b, a)

\* ------------------------------------------------------------------ inputs

\* What request.form.get returns for a field the form does not carry.
None == "<None>"

\* The decimal literals among the amount inputs, with their values.
Literal == ("-1" :> -1) @@ ("0" :> 0) @@ ("1" :> 1) @@ ("12288" :> 12288)

\* The amount fields the forms post: missing, not a number, the literals, nan, inf.
AmountInputs == {None, "abc", "nan", "inf"} \cup DOMAIN Literal

\* float(amount): the parsed value, or the exception it raises.
PyFloat(s) ==
    IF s = None THEN [ok |-> FALSE, val |-> NaN, exc |-> "TypeError"]
    ELSE IF s = "nan" THEN [ok |-> TRUE, val |-> NaN, exc |-> ""]
    ELSE IF s = "inf" THEN [ok |-> TRUE, val |-> Inf, exc |-> ""]
    ELSE IF s \in DOMAIN Literal THEN [ok |-> TRUE, val |-> Round(Literal[s]), exc |-> ""]
    ELSE [ok |-> FALSE, val |-> NaN, exc |-> "ValueError"]

Clients == {"c1", "c2"}
FirstNames == {None, "John"}
LastNames == {"", "Doe"}
Emails == {None, "a@x", "b@x"}
\* Passwords a registration form posts, and passwords a login form posts.
Passwords == {"", "pw1"}
LoginPasswords == {"pw1", "pw2"}
Salts == {"s1"}

\* Python truthiness of a form field: None and "" are falsy.
Truthy(s) == s # None /\ s # ""

\* The wall-clock instants datetime.now(timezone.utc) returns, in order.
Instants == <<[year |-> 2026, month |-> 11], [year |-> 2026, month |-> 12],
              [year |-> 2027, month |-> 11]>>

MonthName == <<"January", "February", "March", "April", "May", "June", "July",
               "August", "September", "October", "November", "December">>

\* ------------------------------------------------------- library functions

\* werkzeug's generate_password_hash: a salted one-way digest of the password.
generate_password_hash(password, salt) ==
    [salt |-> salt, digest |-> <<salt, password>>]

\* werkzeug's check_password_hash: recomputes the digest under the stored salt.
check_password_hash(pwhash, password) ==
    pwhash.digest = <<pwhash.salt, password>>

\* str(ObjectId): the text form of an account id, as the session keeps it.
StrId(n) == "oid" \o ToString(n)

\* ObjectId(text): the id a session's text names.
ObjectId(s) == CHOOSE n \in 1..MaxUsers : StrId(n) = s

\* date.strftime('%B %Y')
StrfTime(d) == MonthName[d.month] \o " " \o ToString(d.year)

\* date.isoformat()
IsoFormat(d) == [iso |-> <<d.year, d.month>>]

\* -------------------------------------------------------------- the store

\* mongo.db.users.find_one({'email': email}): the position of the first
\* matching document, 0 for None.
FindOneByEmail(us, email) ==
    IF \E i \in 1..Len(us) : us[i].email = email
    THEN CHOOSE i \in 1..Len(us) :
             /\ us[i].email = email
             /\ \A j \in 1..(i - 1) : us[j].email # email
    ELSE 0

\* mongo.db.users.find_one({'_id': oid})
FindOneById(us, oid) ==
    IF \E i \in 1..Len(us) : us[i]._id = oid
    THEN CHOOSE i \in 1..Len(us) : us[i]._id = oid
    ELSE 0

\* mongo.db.users.insert_one(user): the store assigns the _id.
\* An insert_one on a collection with a unique index on email.
UniqueIndexInsertOne(us, user) ==
    IF FindOneByEmail(us, user.email) # 0
    THEN us
    ELSE Append(us, [_id |-> Len(us) + 1] @@ user)

InsertOne(us, user) ==
    Append(us, [_id |-> Len(us) + 1] @@ user)

\* The write as one atomic increment of the stored balance ($inc).
IncrementUpdateOne(us, oid, new_balance, transaction) ==
    [i \in 1..Len(us) |->
        IF us[i]._id = oid
        THEN [us[i] EXCEPT !.balance = IF transaction.type = "deposit"
                                       THEN FAdd(@, transaction.amount)
                                       ELSE FSub(@, transaction.amount),
                           !.transactions = Append(@, transaction)]
        ELSE us[i]]

\* mongo.db.users.update_one({'_id': oid},
\*     {'$set': {'balance': new_balance}, '$push': {'transactions': transaction}})
UpdateOne(us, oid, new_balance, transaction) ==
    [i \in 1..Len(us) |->
        IF us[i]._id = oid
        THEN [us[i] EXCEPT !.balance = new_balance,
                           !.transactions = Append(@, transaction)]
        ELSE us[i]]

\* ------------------------------------------------------------------ state

VARIABLES
    users,      \* the users collection, in insertion order
    session,    \* each client's session cookie: a dict
    now,        \* index into Instants of the current wall-clock time
    resp,       \* the response to the latest completed request
    inflight    \* per worker: the handler it is in the middle of, and its locals

vars == <<users, session, now, resp, inflight>>

Workers == {"w1", "w2"}

EmptySession == [key \in {} |-> ""]
LoggedInSession(sid) == [key \in {"user_id"} |-> sid]

\* The guard looking for a key login() never sets.
WrongKeyHasUserId(c) == "user" \in DOMAIN session[c]

\* 'user_id' in session
HasUserId(c) == "user_id" \in DOMAIN session[c]

Idle == [pc |-> "idle"]

Response(op, status, location, flashes, body) ==
    [op |-> op, status |-> status, location |-> location, flash |-> flashes,
     body |-> body]

NoBody == <<>>

Init ==
    /\ users = <<>>
    /\ session = [c \in Clients |-> EmptySession]
    /\ now = 1
    /\ resp = Response("none", 0, "", <<>>, NoBody)
    /\ inflight = [w \in Workers |-> Idle]

TotalTx(us) ==
    LET RECURSIVE Sum(_)
        Sum(i) == IF i = 0 THEN 0 ELSE Len(us[i].transactions) + Sum(i - 1)
    IN  Sum(Len(us))

\* The wall clock moves on between requests (HistorySpec; in the other
\* specifications every request falls in the same month).
Tick ==
    /\ now < Len(Instants)
    /\ now' = now + 1
    /\ UNCHANGED <<users, session, resp, inflight>>

\* ------------------------------------------------------------ registration

\* The document register() builds.
NewUser(first_name, last_name, email, password, salt) ==
    [first_name |-> first_name, last_name |-> last_name, email |-> email,
     password_hash |-> generate_password_hash(password, salt),
     balance |-> Fin(0), transactions |-> <<>>]

\* The field check that forgets the password.
PasswordlessFieldsMissing(first_name, last_name, email, password) ==
    ~Truthy(first_name) \/ ~Truthy(last_name) \/ ~Truthy(email)

RegisterFieldsMissing(first_name, last_name, email, password) ==
    ~Truthy(first_name) \/ ~Truthy(last_name) \/ ~Truthy(email) \/ ~Truthy(password)

\* POST /api/register
register(c, first_name, last_name, email, password, salt) ==
    /\ Len(users) < MaxUsers
    /\ UNCHANGED <<session, now, inflight>>
    /\ IF RegisterFieldsMissing(first_name, last_name, email, password)
       THEN /\ resp' = Response("register", 302, "register",
                                <<"Please fill all fields">>, NoBody)
            /\ UNCHANGED users
       ELSE IF FindOneByEmail(users, email) # 0
       THEN /\ resp' = Response("register", 302, "register",
                                <<"Email already exists">>, NoBody)
            /\ UNCHANGED users
       ELSE /\ users' = InsertOne(users,
                            NewUser(first_name, last_name, email, password, salt))
            /\ resp' = Response("register", 302, "login",
                                <<"Registration successful. Please log in.">>, NoBody)

\* ---------------------------------------------------------- authentication

\* The test of login() without the password check.
EmailOnlyLoginAccepts(us, email, password) == FindOneByEmail(us, email) # 0

\* The test of login(): user and check_password_hash(user['password_hash'], password)
LoginAccepts(us, email, password) ==
    /\ FindOneByEmail(us, email) # 0
    /\ check_password_hash(us[FindOneByEmail(us, email)].password_hash, password)

\* POST /api/login
login(c, email, password) ==
    /\ UNCHANGED <<users, now, inflight>>
    /\ IF LoginAccepts(users, email, password)
       THEN /\ session' = [session EXCEPT ![c] =
                    LoggedInSession(StrId(users[FindOneByEmail(users, email)]._id))]
            /\ resp' = Response("login", 302, "dashboard", <<>>, NoBody)
       ELSE /\ resp' = Response("login", 302, "login",
                                <<"Invalid email or password">>, NoBody)
            /\ UNCHANGED session

\* GET /api/logout
logout(c) ==
    /\ session' = [session EXCEPT ![c] = EmptySession]
    /\ resp' = Response("logout", 302, "login", <<"Logged out">>, NoBody)
    /\ UNCHANGED <<users, now, inflight>>

\* GET /api/dashboard
dashboard(c) ==
    /\ UNCHANGED <<users, session, now, inflight>>
    /\ IF ~HasUserId(c)
       THEN resp' = Response("dashboard", 302, "login", <<>>, NoBody)
       ELSE resp' = Response("dashboard", 200, "", <<>>, NoBody)

\* ----------------------------------------------------- deposit and withdraw

\* The amount above which deposit() flashes the OTP notice.
OtpLimit == 10000

\* The deposit forgetting the balance it read.
OverwritingDepositNewBalance(user, amount) == amount

\* new_balance = user['balance'] + amount
DepositNewBalance(user, amount) == FAdd(user.balance, amount)

\* new_balance = user['balance'] - amount
WithdrawNewBalance(user, amount) == FSub(user.balance, amount)

\* if amount <= 0
AmountRejected(amount) == FLe(amount, Fin(0))

\* The funds check refusing a withdrawal of the whole balance.
StrictInsufficientFunds(user, amount) == ~FGt(user.balance, amount)

\* The funds check with its comparison turned around.
ReversedInsufficientFunds(user, amount) == FLt(amount, user.balance)

\* if user['balance'] < amount
InsufficientFunds(user, amount) == FLt(user.balance, amount)

Transaction(type, amount) ==
    [type |-> type, amount |-> amount, date |-> Instants[now]]

Reject(r) == [kind |-> "reject", resp |-> r]

Update(oid, user, new_balance, transaction, r) ==
    [kind |-> "update", oid |-> oid, user |-> [balance |-> user.balance],
     new_balance |-> new_balance, transaction |-> transaction, resp |-> r]

\* deposit() up to its update_one call: the response it returns without
\* writing, or the write it is about to issue.
DepositPlan(c, amount_str) ==
    IF ~HasUserId(c)
    THEN Reject(Response("deposit", 302, "login", <<>>, NoBody))
    ELSE IF ~PyFloat(amount_str).ok
    THEN Reject(Response("deposit", 302, "dashboard", <<"Invalid amount">>, NoBody))
    ELSE IF AmountRejected(PyFloat(amount_str).val)
    THEN Reject(Response("deposit", 302, "dashboard",
                         <<"Amount must be positive">>, NoBody))
    ELSE LET amount == PyFloat(amount_str).val
             otp == IF FGt(amount, Fin(OtpLimit))
                    THEN <<"Amount above 10,000 requires OTP verification (skipped)">>
                    ELSE <<>>
             oid == ObjectId(session[c].user_id)
             user == users[FindOneById(users, oid)]
         IN  Update(oid, user, DepositNewBalance(user, amount),
                    Transaction("deposit", amount),
                    Response("deposit", 302, "dashboard",
                             otp \o <<"Deposit successful">>, NoBody))

\* withdraw() up to its update_one call.
WithdrawPlan(c, amount_str) ==
    IF ~HasUserId(c)
    THEN Reject(Response("withdraw", 302, "login", <<>>, NoBody))
    ELSE IF ~PyFloat(amount_str).ok
    THEN Reject(Response("withdraw", 302, "dashboard", <<"Invalid amount">>, NoBody))
    ELSE IF AmountRejected(PyFloat(amount_str).val)
    THEN Reject(Response("withdraw", 302, "dashboard",
                         <<"Amount must be positive">>, NoBody))
    ELSE LET amount == PyFloat(amount_str).val
             oid == ObjectId(session[c].user_id)
             user == users[FindOneById(users, oid)]
         IN  IF InsufficientFunds(user, amount)
             THEN Reject(Response("withdraw", 302, "dashboard",
                                  <<"Insufficient funds">>, NoBody))
             ELSE Update(oid, user, WithdrawNewBalance(user, amount),
                         Transaction("withdrawal", amount),
                         Response("withdraw", 302, "dashboard",
                                  <<"Withdrawal successful">>, NoBody))

\* A handler run from its first line to its return, nothing interleaved.
RunPlan(plan) ==
    /\ resp' = plan.resp
    /\ IF plan.kind = "update"
       THEN users' = UpdateOne(users, plan.oid, plan.new_balance, plan.transaction)
       ELSE UNCHANGED users
    /\ UNCHANGED <<session, now, inflight>>

\* POST /api/deposit
deposit(c, amount_str) ==
    /\ TotalTx(users) < MaxTx
    /\ RunPlan(DepositPlan(c, amount_str))

\* POST /api/withdraw
withdraw(c, amount_str) ==
    /\ TotalTx(users) < MaxTx
    /\ RunPlan(WithdrawPlan(c, amount_str))

\* ------------------------------------------------------- list transactions

serialize_tx(t) ==
    [type |-> t.type, amount |-> t.amount, date |-> IsoFormat(t.date)]

\* The key without the year: strftime('%B').
MonthOnlyKey(t) == MonthName[t.date.month]

\* The key get_transactions() groups a transaction under.
MonthKey(t) == StrfTime(t.date)

\* grouped.setdefault(month, []).append(entry), on an insertion-ordered dict
\* kept as the sequence of its items.
SetDefaultAppend(grouped, month, entry) ==
    IF \E i \in 1..Len(grouped) : grouped[i].month = month
    THEN [i \in 1..Len(grouped) |->
            IF grouped[i].month = month
            THEN [grouped[i] EXCEPT !.transactions = Append(@, entry)]
            ELSE grouped[i]]
    ELSE Append(grouped, [month |-> month, transactions |-> <<entry>>])

\* The loop of get_transactions() over txs, and the list built from the dict.
RECURSIVE GroupByMonth(_, _)
GroupByMonth(txs, grouped) ==
    IF txs = <<>> THEN grouped
    ELSE GroupByMonth(Tail(txs),
                      SetDefaultAppend(grouped, MonthKey(Head(txs)),
                                       serialize_tx(Head(txs))))

\* GET /api/transactions
get_transactions(c) ==
    /\ UNCHANGED <<users, session, now, inflight>>
    /\ IF ~HasUserId(c)
       THEN resp' = Response("transactions", 401, "", <<>>,
                             <<[error |-> "Not logged in"]>>)
       ELSE LET user == users[FindOneById(users, ObjectId(session[c].user_id))]
            IN  resp' = Response("transactions", 200, "", <<>>,
                                 GroupByMonth(user.transactions, <<>>))

\* ---------------------------------------------------------- specification

\* Requests served one at a time, each handler running to completion, these
\* clients posting forms with these emails and amounts.
Requests(clients, emails, amounts) ==
    \/ \E c \in clients, first_name \in FirstNames, last_name \in LastNames,
          email \in emails, password \in Passwords, salt \in Salts :
          register(c, first_name, last_name, email, password, salt)
    \/ \E c \in clients, email \in emails, password \in LoginPasswords :
          login(c, email, password)
    \/ \E c \in clients : logout(c)
    \/ \E c \in clients : dashboard(c)
    \/ \E c \in clients, amount_str \in amounts : deposit(c, amount_str)
    \/ \E c \in clients, amount_str \in amounts : withdraw(c, amount_str)
    \/ \E c \in clients : get_transactions(c)

\* The ledger of one account, one client posting every amount input.
LedgerEmails == {None, "a@x"}

Next == Requests({"c1"}, LedgerEmails, AmountInputs)

Spec == Init /\ [][Next]_vars

\* Two clients, two accounts, and a few amounts.
AuthAmounts == {"abc", "1"}

AuthNext == Requests(Clients, Emails, AuthAmounts)

AuthSpec == Init /\ [][AuthNext]_vars

\* ------------------------------------------------- the clock moving on

\* The inputs of the specification in which time passes between requests.
HistoryAmounts == {"1", "12288"}

HistoryNext ==
    \/ Tick
    \/ \E salt \in Salts : register("c1", "John", "Doe", "a@x", "pw1", salt)
    \/ \E password \in LoginPasswords : login("c1", "a@x", password)
    \/ \E amount_str \in HistoryAmounts : deposit("c1", amount_str)
    \/ \E amount_str \in HistoryAmounts : withdraw("c1", amount_str)
    \/ get_transactions("c1")

HistorySpec == Init /\ [][HistoryNext]_vars

\* ------------------------------------------------------ concurrent requests

\* Each worker thread serves one request at a time; a handler that writes to
\* the store is two steps, up to its write and the write itself, and other
\* workers' steps may fall between them.

Busy(w) == inflight[w].pc # "idle"

PendingUpdates == Cardinality({w \in Workers : inflight[w].pc = "update_one"})
PendingInserts == Cardinality({w \in Workers : inflight[w].pc = "insert_one"})

\* A handler's lines up to its update_one call.
BeginUpdate(w, plan) ==
    /\ ~Busy(w)
    /\ TotalTx(users) + PendingUpdates < MaxTx
    /\ IF plan.kind = "update"
       THEN /\ inflight' = [inflight EXCEPT ![w] = [pc |-> "update_one", plan |-> plan]]
            /\ UNCHANGED resp
       ELSE /\ resp' = plan.resp
            /\ UNCHANGED inflight
    /\ UNCHANGED <<users, session, now>>

\* deposit(), lines 73-90
deposit_begin(w, c, amount_str) == BeginUpdate(w, DepositPlan(c, amount_str))

\* withdraw(), lines 104-121
withdraw_begin(w, c, amount_str) == BeginUpdate(w, WithdrawPlan(c, amount_str))

\* The update_one call of deposit() or withdraw(), and the lines after it.
update_one(w) ==
    /\ inflight[w].pc = "update_one"
    /\ users' = UpdateOne(users, inflight[w].plan.oid, inflight[w].plan.new_balance,
                          inflight[w].plan.transaction)
    /\ resp' = inflight[w].plan.resp
    /\ inflight' = [inflight EXCEPT ![w] = Idle]
    /\ UNCHANGED <<session, now>>

\* register(), lines 26-45
register_begin(w, c, first_name, last_name, email, password, salt) ==
    /\ ~Busy(w)
    /\ Len(users) + PendingInserts < MaxUsers
    /\ UNCHANGED <<users, session, now>>
    /\ IF RegisterFieldsMissing(first_name, last_name, email, password)
       THEN /\ resp' = Response("register", 302, "register",
                                <<"Please fill all fields">>, NoBody)
            /\ UNCHANGED inflight
       ELSE IF FindOneByEmail(users, email) # 0
       THEN /\ resp' = Response("register", 302, "register",
                                <<"Email already exists">>, NoBody)
            /\ UNCHANGED inflight
       ELSE /\ inflight' = [inflight EXCEPT ![w] =
                    [pc |-> "insert_one",
                     user |-> NewUser(first_name, last_name, email, password, salt)]]
            /\ UNCHANGED resp

\* register(), lines 46-48
register_insert(w) ==
    /\ inflight[w].pc = "insert_one"
    /\ users' = InsertOne(users, inflight[w].user)
    /\ resp' = Response("register", 302, "login",
                        <<"Registration successful. Please log in.">>, NoBody)
    /\ inflight' = [inflight EXCEPT ![w] = Idle]
    /\ UNCHANGED <<session, now>>

\* The inputs of the specification of concurrent requests.
ConcAmounts == {"0", "1", "12288", "nan"}
ConcEmails == {"a@x"}

ConcNext ==
    \/ \E w \in Workers, email \in ConcEmails, password \in Passwords, salt \in Salts :
          register_begin(w, "c1", "John", "Doe", email, password, salt)
    \/ \E w \in Workers : register_insert(w)
    \/ \E email \in ConcEmails, password \in LoginPasswords :
          login("c1", email, password)
    \/ logout("c1")
    \/ \E w \in Workers, amount_str \in ConcAmounts : deposit_begin(w, "c1", amount_str)
    \/ \E w \in Workers, amount_str \in ConcAmounts : withdraw_begin(w, "c1", amount_str)
    \/ \E w \in Workers : update_one(w)

ConcSpec == Init /\ [][ConcNext]_vars

\* ------------------------------------------------------------------ claims

\* Whether the client's session names an account, and which.
SessionEstablished(c) == session[c] # EmptySession

SessionAccount(c) ==
    CHOOSE i \in 1..Len(users) : StrId(users[i]._id) = session[c].user_id

\* The amount field parses to a number greater than zero.
ParsesPositive(s) == PyFloat(s).ok /\ FGt(PyFloat(s).val, Fin(0))

\* The account's transactions grew by one entry, of this kind and amount.
AppendedOne(i, type, amount) ==
    /\ Len(users'[i].transactions) = Len(users[i].transactions) + 1
    /\ SubSeq(users'[i].transactions, 1, Len(users[i].transactions))
           = users[i].transactions
    /\ users'[i].transactions[Len(users'[i].transactions)].type = type
    /\ users'[i].transactions[Len(users'[i].transactions)].amount = amount

LastTx(i) == users[i].transactions[Len(users[i].transactions)]

ValidationErrors == {<<"Invalid amount">>, <<"Amount must be positive">>}

\* C1: a deposit of an amount a that parses to a number > 0, by a client whose
\* session is bound to an account with balance b, leaves the balance b + a and
\* the transactions the old sequence with one deposit of a appended.
C1_DepositAddsAmount ==
    [][\A c \in Clients, s \in AmountInputs :
          (/\ resp'.op = "deposit"
           /\ SessionEstablished(c)
           /\ ParsesPositive(s)
           /\ deposit(c, s)) =>
              LET i == SessionAccount(c)
                  a == PyFloat(s).val
              IN  /\ Len(users') = Len(users)
                  /\ users'[i].balance = FAdd(users[i].balance, a)
                  /\ AppendedOne(i, "deposit", a)]_vars

\* C1 witness: a second deposit, of more than 10000, has been applied.
C1_Witness ==
    /\ resp.op = "deposit"
    /\ resp.flash = <<"Amount above 10,000 requires OTP verification (skipped)",
                      "Deposit successful">>
    /\ \E i \in 1..Len(users) :
          /\ Len(users[i].transactions) = 2
          /\ LastTx(i).type = "deposit"
          /\ FGt(LastTx(i).amount, Fin(OtpLimit))
          /\ FGt(users[i].balance, LastTx(i).amount)

\* C2: a withdrawal of an amount a with 0 < a <= b, b the balance of the
\* session's account, leaves the balance b - a and the transactions the old
\* sequence with one withdrawal of a appended.
C2_WithdrawSubtractsAmount ==
    [][\A c \in Clients, s \in AmountInputs :
          (/\ resp'.op = "withdraw"
           /\ SessionEstablished(c)
           /\ ParsesPositive(s)
           /\ FLe(PyFloat(s).val, users[SessionAccount(c)].balance)
           /\ withdraw(c, s)) =>
              LET i == SessionAccount(c)
                  a == PyFloat(s).val
              IN  /\ Len(users') = Len(users)
                  /\ users'[i].balance = FSub(users[i].balance, a)
                  /\ AppendedOne(i, "withdrawal", a)]_vars

\* C2 witness: the whole balance has been withdrawn.
C2_Witness ==
    /\ resp.op = "withdraw"
    /\ resp.flash = <<"Withdrawal successful">>
    /\ \E i \in 1..Len(users) :
          /\ Len(users[i].transactions) = 2
          /\ users[i].transactions[1].type = "deposit"
          /\ LastTx(i).type = "withdrawal"
          /\ LastTx(i).amount = users[i].transactions[1].amount
          /\ users[i].balance = Fin(0)

\* C3: a withdrawal of a valid positive amount greater than the balance fails
\* with "Insufficient funds" and leaves every account as it was.
C3_InsufficientFundsRejected ==
    [][\A c \in Clients, s \in AmountInputs :
          (/\ resp'.op = "withdraw"
           /\ SessionEstablished(c)
           /\ ParsesPositive(s)
           /\ FGt(PyFloat(s).val, users[SessionAccount(c)].balance)
           /\ withdraw(c, s)) =>
              /\ users' = users
              /\ resp'.flash = <<"Insufficient funds">>]_vars

\* C3 witness: a withdrawal from a freshly registered account has been refused.
C3_Witness ==
    /\ resp.op = "withdraw"
    /\ resp.flash = <<"Insufficient funds">>
    /\ SessionEstablished("c1")
    /\ users[SessionAccount("c1")].balance = Fin(0)
    /\ users[SessionAccount("c1")].transactions = <<>>

\* The amount field is a positive finite number.
PositiveFinite(s) ==
    PyFloat(s).ok /\ PyFloat(s).val.k = "fin" /\ PyFloat(s).val.v > 0

\* C4: a deposit or withdrawal whose amount is missing, unparseable or not a
\* positive finite number reports a validation error and changes no account.
C4_InvalidAmountRejected ==
    [][\A c \in Clients, s \in AmountInputs :
          (/\ resp'.op \in {"deposit", "withdraw"}
           /\ SessionEstablished(c)
           /\ ~PositiveFinite(s)
           /\ deposit(c, s) \/ withdraw(c, s)) =>
              /\ users' = users
              /\ resp'.flash \in ValidationErrors]_vars

\* Requests to the guarded routes.
Guarded(c) ==
    /\ resp'.op \in {"dashboard", "transactions", "deposit", "withdraw"}
    /\ \/ dashboard(c)
       \/ get_transactions(c)
       \/ \E s \in AmountInputs : deposit(c, s) \/ withdraw(c, s)

RedirectToLogin(r) == r.status = 302 /\ r.location = "login"

\* C5: without a session a guarded route redirects to login (transactions: 401)
\* and changes no account; with a session it never redirects to login.
C5_SessionGuard ==
    [][\A c \in Clients :
          Guarded(c) =>
              IF SessionEstablished(c)
              THEN ~RedirectToLogin(resp') /\ resp'.status # 401
              ELSE /\ users' = users
                   /\ IF resp'.op = "transactions"
                      THEN resp'.status = 401
                      ELSE RedirectToLogin(resp')]_vars

\* C5 witness: a deposit of the client without a session has been turned away
\* while the other client is logged in to an account with transactions.
C5_Witness ==
    /\ resp.op = "deposit"
    /\ RedirectToLogin(resp)
    /\ ~SessionEstablished("c1")
    /\ SessionEstablished("c2")
    /\ users[SessionAccount("c2")].transactions # <<>>

\* The sum, in stored order, of the amounts of the transactions of one kind.
RECURSIVE SumAmounts(_, _)
SumAmounts(txs, type) ==
    IF txs = <<>> THEN Fin(0)
    ELSE LET rest == SumAmounts(SubSeq(txs, 1, Len(txs) - 1), type)
             last == txs[Len(txs)]
         IN  IF last.type = type THEN FAdd(rest, last.amount) ELSE rest

Ledger(txs) == FSub(SumAmounts(txs, "deposit"), SumAmounts(txs, "withdrawal"))

\* C6: with requests served one at a time, every account's balance equals the
\* sum of its deposits minus the sum of its withdrawals.
C6_LedgerConsistent ==
    \A i \in 1..Len(users) : users[i].balance = Ledger(users[i].transactions)

AccountOf(oid) == CHOOSE i \in 1..Len(users) : users[i]._id = oid

\* C7: a write stores the balance its handler computed from the balance it
\* read, whatever the balance has become since, and appends its transaction:
\* of two overlapping operations that read the same balance the later write
\* undoes the earlier one, and both transactions stay.
C7_StaleWriteOverwrites ==
    [][\A w \in Workers :
          (inflight[w].pc = "update_one" /\ update_one(w)) =>
              LET p == inflight[w].plan
                  i == AccountOf(p.oid)
                  a == p.transaction.amount
              IN  /\ users'[i].balance =
                        IF p.transaction.type = "deposit"
                        THEN FAdd(p.user.balance, a)
                        ELSE FSub(p.user.balance, a)
                  /\ users'[i].transactions =
                        Append(users[i].transactions, p.transaction)]_vars

\* C7 witness: two deposits are in the history and the balance shows one.
C7_Witness ==
    /\ \A w \in Workers : inflight[w].pc = "idle"
    /\ \E i \in 1..Len(users) :
          /\ Len(users[i].transactions) = 2
          /\ \A j \in 1..2 : users[i].transactions[j].type = "deposit"
          /\ \A j \in 1..2 : users[i].transactions[j].amount.k = "fin"
          /\ users[i].balance = users[i].transactions[2].amount
          /\ users[i].balance # Ledger(users[i].transactions)

UniqueEmails(us) ==
    \A i, j \in 1..Len(us) : us[i].email = us[j].email => i = j

\* C8: a registration with a field missing or empty, or with an email some
\* account has, adds no account; any other adds exactly one, with balance 0
\* and no transactions; none establishes a session; emails stay unique.
C8_Registration ==
    [][\A c \in Clients, first_name \in FirstNames, last_name \in LastNames,
          email \in Emails, password \in Passwords, salt \in Salts :
          (/\ resp'.op = "register"
           /\ register(c, first_name, last_name, email, password, salt)) =>
              /\ session' = session
              /\ UniqueEmails(users')
              /\ IF \E f \in {first_name, last_name, email, password} :
                       f = None \/ f = ""
                 THEN /\ users' = users
                      /\ resp'.flash = <<"Please fill all fields">>
                 ELSE IF \E i \in 1..Len(users) : users[i].email = email
                 THEN /\ users' = users
                      /\ resp'.flash = <<"Email already exists">>
                 ELSE /\ Len(users') = Len(users) + 1
                      /\ SubSeq(users', 1, Len(users)) = users
                      /\ users'[Len(users')].email = email
                      /\ users'[Len(users')].balance = Fin(0)
                      /\ users'[Len(users')].transactions = <<>>]_vars

\* C8 witness: a second account has been registered, and nobody is logged in.
C8_Witness ==
    /\ resp.op = "register"
    /\ resp.location = "login"
    /\ Len(users) = 2
    /\ users[2].balance = Fin(0)
    /\ \A c \in Clients : ~SessionEstablished(c)

\* The password an account was registered with.
RegisteredPassword(i) == users[i].password_hash.digest[2]

YearMonth(t) == <<t.date.year, t.date.month>>

\* The positions, in order, of the transactions of a group's month and year.
GroupIndexes(body, txs, g) ==
    SelectSeq([i \in 1..Len(txs) |-> i],
              LAMBDA i : YearMonth(txs[i]) = body[g].transactions[1].date.iso)

\* body lists txs by month and year: one group per month and year, in order of
\* first appearance, each holding its transactions in stored order.
GroupingCorrect(body, txs) ==
    /\ txs = <<>> => body = <<>>
    /\ \A g \in 1..Len(body) : body[g].transactions # <<>>
    /\ \A g, h \in 1..Len(body) :
          g # h => /\ body[g].month # body[h].month
                   /\ body[g].transactions[1].date.iso # body[h].transactions[1].date.iso
    /\ \A i \in 1..Len(txs) :
          \E g \in 1..Len(body) : body[g].transactions[1].date.iso = YearMonth(txs[i])
    /\ \A g \in 1..Len(body) :
          LET ix == GroupIndexes(body, txs, g)
          IN  /\ Len(body[g].transactions) = Len(ix)
              /\ \A j \in 1..Len(ix) :
                    /\ body[g].transactions[j].type = txs[ix[j]].type
                    /\ body[g].transactions[j].amount = txs[ix[j]].amount
                    /\ body[g].transactions[j].date.iso = YearMonth(txs[ix[j]])
    /\ \A g, h \in 1..Len(body) :
          g < h => GroupIndexes(body, txs, g)[1] < GroupIndexes(body, txs, h)[1]

\* C10: listing transactions changes nothing and returns the session account's
\* transactions grouped by month and year as GroupingCorrect says.
C10_TransactionsGrouped ==
    [][\A c \in Clients :
          (resp'.op = "transactions" /\ get_transactions(c)) =>
              /\ users' = users
              /\ session' = session
              /\ SessionEstablished(c) =>
                    /\ resp'.status = 200
                    /\ GroupingCorrect(resp'.body,
                                       users[SessionAccount(c)].transactions)]_vars

\* C10 witness: a listing of two groups, the first of two transactions.
C10_Witness ==
    /\ resp.op = "transactions"
    /\ resp.status = 200
    /\ Len(resp.body) = 2
    /\ Len(resp.body[1].transactions) = 2
    /\ Len(resp.body[2].transactions) = 1

IsPrefix(s, t) == Len(s) <= Len(t) /\ \A j \in 1..Len(s) : t[j] = s[j]

\* The step is the write of a deposit or withdrawal on account i.
WritesTo(i) ==
    \E w \in Workers :
        /\ inflight[w].pc = "update_one"
        /\ inflight[w].plan.oid = users[i]._id
        /\ update_one(w)

PositiveEntry(t) ==
    /\ t.type \in {"deposit", "withdrawal"}
    /\ FGt(t.amount, Fin(0))

\* C11: across every step, interleaved ones included, each account stays,
\* with the same id, email and names; its transactions before the step are a
\* prefix of those after it, one longer when the step is the write of a
\* deposit or withdrawal on that account and as long otherwise; and every
\* entry is a deposit or a withdrawal of a positive amount.
C11_AppendOnlyHistory ==
    [][/\ Len(users') >= Len(users)
       /\ \A i \in 1..Len(users) :
             /\ users'[i]._id = users[i]._id
             /\ users'[i].email = users[i].email
             /\ users'[i].first_name = users[i].first_name
             /\ users'[i].last_name = users[i].last_name
             /\ IsPrefix(users[i].transactions, users'[i].transactions)
             /\ Len(users'[i].transactions) =
                   Len(users[i].transactions) + (IF WritesTo(i) THEN 1 ELSE 0)
       /\ \A i \in 1..Len(users') :
             \A j \in 1..Len(users'[i].transactions) :
                 PositiveEntry(users'[i].transactions[j])]_vars

\* C12: the lookup by email and the insert are separate steps: a registration
\* that passed the lookup inserts its account whatever the collection holds by
\* then, so of two registrations of one unused email that both passed the
\* lookup both insert, and two accounts have the same email.
C12_DuplicateEmailRace ==
    [][\A w \in Workers :
          (inflight[w].pc = "insert_one" /\ register_insert(w)) =>
              /\ Len(users') = Len(users) + 1
              /\ SubSeq(users', 1, Len(users)) = users
              /\ users'[Len(users')].email = inflight[w].user.email]_vars

\* C12 witness: both registrations are over and two accounts share an email.
C12_Witness ==
    /\ \A w \in Workers : inflight[w].pc = "idle"
    /\ \E i, j \in 1..Len(users) :
          /\ i # j
          /\ users[i].email = users[j].email
          /\ users[i]._id # users[j]._id

NonNegative(x) == FLe(Fin(0), x)

\* The value a pending write will store is the balance its handler read plus
\* a positive amount, or that balance minus an amount no greater than it.
CheckedWrite(plan) ==
    LET read == plan.user.balance
        amount == plan.transaction.amount
    IN  IF plan.transaction.type = "deposit"
        THEN /\ FGt(amount, Fin(0))
             /\ plan.new_balance = FAdd(read, amount)
        ELSE /\ FLe(amount, read)
             /\ plan.new_balance = FSub(read, amount)

\* C13: in every reachable state, those between the read and the write of
\* overlapping deposits and withdrawals included, every account's balance is
\* at least 0, and so is every value about to be written, which is a checked
\* sum or difference as CheckedWrite says.
C13_BalanceNonNegative ==
    /\ \A i \in 1..Len(users) : NonNegative(users[i].balance)
    /\ \A w \in Workers :
          inflight[w].pc = "update_one" =>
              /\ CheckedWrite(inflight[w].plan)
              /\ NonNegative(inflight[w].plan.new_balance)

====
